---- MODULE Spec2Model ----
(***************************************************************************)
(* The three-stage batch pipeline of src/lambda_handler: the extractor     *)
(* (extract.py), the key it hands to the transformer (transform.py), and   *)
(* the stores they share: the SSM parameter 'last_checked' (the            *)
(* watermark), the source database, and the ingestion bucket.              *)
(*                                                                         *)
(* Time is a discrete wall clock.  A timestamp string is a record          *)
(* [t, sep]: t is the instant, sep the character the string carries        *)
(* between its time fields (":" as datetime.isoformat() writes it, "-"     *)
(* after str.replace(":", "-")).                                           *)
(***************************************************************************)
EXTENDS Integers, Sequences, FiniteSets, TLC

VARIABLES now, ssm, source, updates, bucket, runs, run, call,
          processed, warehouse, xf, ld

\* the state of the transformer and of the loader: the processed bucket, the
\* warehouse tables, and the position and locals of one invocation of each
stages == <<processed, warehouse, xf, ld>>

vars == <<now, ssm, source, updates, bucket, runs, run, call, stages>>

(* ------------------------------ bounds --------------------------------- *)

\* the wall clock runs over 1..MaxTime
MaxTime == 2
\* extractor invocations in one behaviour
MaxRuns == 2
\* row changes the source database receives in one behaviour
MaxUpdates == 2

\* the invocation slot the scheduler uses when runs do not overlap
Serial == {"run_a"}
Procs == {"run_a", "run_b"}

\* the source tables the operational database changes in this model
ChangedTables == {"transaction", "department", "address"}

(* --------------------------- timestamp strings ------------------------- *)

\* datetime.isoformat() of instant t
IsoFormat(t) == [t |-> t, sep |-> ":"]

\* str.replace(":", "-")
ReplaceColons(s) == [s EXCEPT !.sep = "-"]

DEFAULT_LAST_CHECKED == IsoFormat(0)

utc_now_iso == IsoFormat(now)

\* datetime.fromisoformat: the instant of an ISO string; anything else raises
CanParseIso(s) == s.sep = ":"
FromIsoFormat(s) == s.t

NoStamp == [t |-> 0, sep |-> "none"]

(* ------------------------- the parameter store ------------------------- *)

\* ssm is the set of parameters, a function from names to values
NoParameters == [n \in {} |-> NoStamp]

\* ssm_client.get_parameter(Name='last_checked'): fault is an injected failure
SsmGetParameter(store, fault) ==
    IF fault # "none" THEN [kind |-> fault, value |-> NoStamp]
    ELSE IF "last_checked" \in DOMAIN store
         THEN [kind |-> "ok", value |-> store["last_checked"]]
         ELSE [kind |-> "ParameterNotFound", value |-> NoStamp]

\* ssm_client.put_parameter(Name="last_checked", Value=v, Overwrite=True)
SsmPutParameter(store, v) ==
    [n \in DOMAIN store \cup {"last_checked"} |->
        IF n = "last_checked" THEN v ELSE store[n]]

GetFaults == {"none", "ClientError", "OtherError"}

\* variant: not-found is raised like any other failure
get_last_checked_raise_on_missing(response) ==
    IF response.kind = "ok"
    THEN [raised |-> FALSE, last_checked |-> response.value]
    ELSE [raised |-> TRUE, last_checked |-> NoStamp]

\* get_last_checked: the value of get_parameter, the default on
\* ParameterNotFound, and the exception re-raised (or uncaught) otherwise
get_last_checked(response) ==
    IF response.kind = "ok"
    THEN [raised |-> FALSE, last_checked |-> response.value]
    ELSE IF response.kind = "ParameterNotFound"
    THEN [raised |-> FALSE, last_checked |-> DEFAULT_LAST_CHECKED]
    ELSE [raised |-> TRUE, last_checked |-> NoStamp]

\* variant: put_parameter without Overwrite keeps an existing value
update_last_checked_keep_existing(store, new_value) ==
    IF "last_checked" \in DOMAIN store THEN store
    ELSE SsmPutParameter(store, new_value)

\* update_last_checked: the store after a put_parameter that succeeded
update_last_checked(store, new_value) == SsmPutParameter(store, new_value)

\* the persisted watermark as an instant; the sentinel when absent
Watermark(store) ==
    IF "last_checked" \in DOMAIN store THEN store["last_checked"].t
    ELSE DEFAULT_LAST_CHECKED.t

(* --------------------------- the source database ----------------------- *)

tables_to_import ==
    <<"transaction", "sales_order", "payment", "counterparty", "currency",
      "department", "design", "staff", "address", "purchase_order",
      "payment_type">>

Tables == {tables_to_import[i] : i \in 1..Len(tables_to_import)}

\* the rows db_connection.run(query) returns for the query extract_new_rows builds
\* variant: the watermark filter applied to the department table as well
extract_new_rows_department_filtered(table_name, last_checked, db) ==
    {r \in db[table_name] : r.last_updated > FromIsoFormat(last_checked)}

\* variant: the filter written as last_updated >= watermark
extract_new_rows_inclusive(table_name, last_checked, db) ==
    IF table_name \in {"department"}
    THEN db[table_name]
    ELSE {r \in db[table_name] : r.last_updated >= FromIsoFormat(last_checked)}

extract_new_rows(table_name, last_checked, db) ==
    IF table_name \in {"department"}
    THEN db[table_name]
    ELSE {r \in db[table_name] : r.last_updated > FromIsoFormat(last_checked)}

(* ---------------------------- the object store ------------------------- *)

\* variant: the key built without the batch id
CsvKey_table_only(table, batch_id) == [table |-> table, stamp |-> NoStamp]

\* f"s3://{ingestion_bucket}/{table}/{batch_id}.csv"
CsvKey(table, batch_id) == [table |-> table, stamp |-> batch_id]

\* wr.s3.to_csv: an object put under a key replaces the object under that key
PutObject(objects, key, rows) ==
    {o \in objects : o.key # key} \cup {[key |-> key, rows |-> rows]}

\* transform.py: key = f"{table}/{last_checked}.csv", the key every builder heads
TransformKey(table, last_checked) == [table |-> table, stamp |-> last_checked]

\* transform.py check_file_exists(ingestion_bucket, key)
check_file_exists(objects, key) == \E o \in objects : o.key = key

(* ------------------------- one extractor invocation -------------------- *)

NoPayload ==
    [message |-> "none", timestamp_to_transform |-> NoStamp,
     batch_id |-> NoStamp, uploaded_tables |-> <<>>]

Environments == [DB_SECRET_NAME : BOOLEAN, S3_INGESTION_BUCKET : BOOLEAN]

\* the local state of lambda_handler before its first statement; the fields
\* start_ssm, fault, reads, writes, queried, nonempty and written record what
\* the invocation has met and done so far (fault: the first failure of a call
\* it made, "none" when every call succeeded)
IdleRun ==
    [pc |-> "idle",
     env |-> [DB_SECRET_NAME |-> TRUE, S3_INGESTION_BUCKET |-> TRUE],
     last_checked |-> NoStamp, batch_id |-> NoStamp,
     new_last_checked |-> NoStamp,
     idx |-> 1, new_rows |-> {}, uploaded_tables |-> <<>>,
     db_conn |-> "none", outcome |-> "none", payload |-> NoPayload,
     start_ssm |-> NoParameters, fault |-> "none", reads |-> 0, writes |-> 0,
     queried |-> <<>>, nonempty |-> <<>>, written |-> {}]

Active(r) == r.pc \notin {"idle", "done"}

\* an exception raised before the try block of lambda_handler is entered:
\* it leaves the handler at once, the finally clause does not run
RaiseBeforeTry(r) == [r EXCEPT !.pc = "done", !.outcome = "raised"]

\* variant: an except clause that returns what was uploaded so far
RaiseInTry_partial_payload(r) ==
    [r EXCEPT !.pc = "finally", !.outcome = "returned",
              !.payload = [message |-> "partial",
                           timestamp_to_transform |-> r.last_checked,
                           batch_id |-> r.batch_id,
                           uploaded_tables |-> r.uploaded_tables]]

\* an exception raised inside the try block: there is no except clause, so it
\* leaves through the finally clause and no value is returned
RaiseInTry(r) == [r EXCEPT !.pc = "finally", !.outcome = "raised"]

\* the scheduler invokes lambda_handler(event, context)
Start(p) ==
    /\ runs < MaxRuns
    /\ \A q \in Procs : ~Active(run[q])
    /\ \A o \in bucket : o.key.stamp.t < now
    /\ \E e \in Environments :
          run' = [run EXCEPT ![p] =
                     [IdleRun EXCEPT !.pc = "get_last_checked", !.env = e,
                                     !.start_ssm = ssm]]
    /\ runs' = runs + 1
    /\ UNCHANGED <<now, ssm, source, updates, bucket, call, stages>>

\* last_checked = get_last_checked(ssm_client)["last_checked"]
GetLastChecked(p) ==
    /\ run[p].pc = "get_last_checked"
    /\ \E fault \in GetFaults :
          LET got == get_last_checked(SsmGetParameter(ssm, fault))
              r == [run[p] EXCEPT !.reads = @ + 1]
          IN run' = [run EXCEPT ![p] =
                 IF got.raised THEN RaiseBeforeTry([r EXCEPT !.fault = fault])
                 ELSE [r EXCEPT !.pc = "get_db_credentials",
                                !.last_checked = got.last_checked]]
    /\ UNCHANGED <<now, ssm, source, updates, bucket, runs, call, stages>>

\* db_credentials = get_db_credentials(sm_client)
GetDbCredentials(p) ==
    /\ run[p].pc = "get_db_credentials"
    /\ \E fault \in {"none", "ResourceNotFoundException", "ClientError"} :
          run' = [run EXCEPT ![p] =
                 IF ~run[p].env.DB_SECRET_NAME
                 THEN RaiseBeforeTry([run[p] EXCEPT !.fault = "ValueError"])
                 ELSE IF fault # "none"
                 THEN RaiseBeforeTry([run[p] EXCEPT !.fault = fault])
                 ELSE [run[p] EXCEPT !.pc = "create_db_connection"]]
    /\ UNCHANGED <<now, ssm, source, updates, bucket, runs, call, stages>>

\* variant: a failed connection logged and the handler carrying on without one
CreateDbConnection_failure_swallowed(p) ==
    /\ run[p].pc = "create_db_connection"
    /\ \E fault \in {"none", "KeyError", "InterfaceError"} :
          run' = [run EXCEPT ![p] =
                 IF fault # "none"
                 THEN [run[p] EXCEPT !.pc = "get_bucket_name", !.fault = fault]
                 ELSE [run[p] EXCEPT !.pc = "get_bucket_name",
                                     !.db_conn = "open"]]
    /\ UNCHANGED <<now, ssm, source, updates, bucket, runs, call, stages>>

\* db_conn = create_db_connection(db_credentials)
CreateDbConnection(p) ==
    /\ run[p].pc = "create_db_connection"
    /\ \E fault \in {"none", "KeyError", "InterfaceError"} :
          run' = [run EXCEPT ![p] =
                 IF fault # "none"
                 THEN RaiseBeforeTry([run[p] EXCEPT !.fault = fault])
                 ELSE [run[p] EXCEPT !.pc = "get_bucket_name",
                                     !.db_conn = "open"]]
    /\ UNCHANGED <<now, ssm, source, updates, bucket, runs, call, stages>>

\* ingestion_bucket = get_bucket_name()
GetBucketName(p) ==
    /\ run[p].pc = "get_bucket_name"
    /\ run' = [run EXCEPT ![p] =
                 IF ~run[p].env.S3_INGESTION_BUCKET
                 THEN RaiseBeforeTry([run[p] EXCEPT !.fault = "ValueError"])
                 ELSE [run[p] EXCEPT !.pc = "batch_id"]]
    /\ UNCHANGED <<now, ssm, source, updates, bucket, runs, call, stages>>

\* batch_id = _utc_now_iso().replace(":", "-"); uploaded_tables = []
BatchId(p) ==
    /\ run[p].pc = "batch_id"
    /\ run' = [run EXCEPT ![p] =
                 [@ EXCEPT !.pc = "loop",
                           !.batch_id = ReplaceColons(utc_now_iso),
                           !.idx = 1, !.uploaded_tables = <<>>]]
    /\ UNCHANGED <<now, ssm, source, updates, bucket, runs, call, stages>>

\* for table in tables_to_import: the loop has run through the list
\* variant: the loop left after its first table
LoopFinished_after_first_table(r) == r.idx > 1

LoopFinished(r) == r.idx > Len(tables_to_import)

\* if new_rows:
\* variant: the upload made for an empty result as well
HasNewRows_always(new_rows) == TRUE

HasNewRows(new_rows) == new_rows # {}

\* uploaded_tables.append(table)
\* variant: the table inserted at the head of the list
RecordUploaded_in_front(uploaded_tables, table) == <<table>> \o uploaded_tables

RecordUploaded(uploaded_tables, table) == Append(uploaded_tables, table)

\* column_names, new_rows = extract_new_rows(table, last_checked, db_conn)
\* A DatabaseError (or any other exception) of db_connection.run is logged by
\* extract_new_rows, which then falls off its end and returns None; unpacking
\* None into two names raises TypeError inside the try block.
ExtractNewRows(p) ==
    /\ run[p].pc = "loop"
    /\ ~LoopFinished(run[p])
    /\ \E fault \in {"none", "DatabaseError"} :
          LET r == run[p]
              table == tables_to_import[r.idx]
              rows == extract_new_rows(table, r.last_checked, source)
              q == [r EXCEPT !.queried = Append(@, table)]
          IN run' = [run EXCEPT ![p] =
                 IF ~CanParseIso(r.last_checked)
                 THEN RaiseInTry([r EXCEPT !.fault = "ValueError"])
                 ELSE IF fault # "none"
                 THEN RaiseInTry([q EXCEPT !.fault = fault])
                 ELSE IF HasNewRows(rows)
                 THEN [q EXCEPT !.pc = "upload", !.new_rows = rows,
                                !.nonempty = IF rows # {} THEN Append(@, table)
                                             ELSE @]
                 ELSE [q EXCEPT !.idx = @ + 1, !.new_rows = rows]]
    /\ UNCHANGED <<now, ssm, source, updates, bucket, runs, call, stages>>

\* convert_new_rows_to_df_and_upload_to_s3_as_csv(...); uploaded_tables.append(table)
Upload(p) ==
    /\ run[p].pc = "upload"
    /\ LET r == run[p]
           table == tables_to_import[r.idx]
           key == CsvKey(table, r.batch_id)
       IN \E fault \in {"none", "Exception"} :
             IF fault # "none"
             THEN /\ run' = [run EXCEPT ![p] =
                               RaiseInTry([r EXCEPT !.fault = fault])]
                  /\ bucket' = bucket
             ELSE /\ bucket' = PutObject(bucket, key, r.new_rows)
                  /\ run' = [run EXCEPT ![p] =
                        [r EXCEPT !.pc = "loop", !.idx = @ + 1,
                                  !.uploaded_tables = RecordUploaded(@, table),
                                  !.written = @ \cup {key}]]
    /\ UNCHANGED <<now, ssm, source, updates, runs, call, stages>>

\* the value the run persists as the next watermark
\* variant: the watermark read at the start written back
NewWatermarkValue_old_watermark(r) == r.last_checked

NewWatermarkValue(r) == utc_now_iso

\* new_last_checked = _utc_now_iso()
NewLastChecked(p) ==
    /\ run[p].pc = "loop"
    /\ LoopFinished(run[p])
    /\ run' = [run EXCEPT ![p] =
                 [@ EXCEPT !.pc = "update_last_checked",
                           !.new_last_checked = NewWatermarkValue(run[p])]]
    /\ UNCHANGED <<now, ssm, source, updates, bucket, runs, call, stages>>

\* update_last_checked(ssm_client, new_last_checked); return {...}
UpdateLastChecked(p) ==
    /\ run[p].pc = "update_last_checked"
    /\ LET r == run[p]
       IN \E fault \in {"none", "ClientError"} :
             IF fault # "none"
             THEN /\ run' = [run EXCEPT ![p] =
                               RaiseInTry([r EXCEPT !.fault = fault])]
                  /\ ssm' = ssm
             ELSE /\ ssm' = update_last_checked(ssm, r.new_last_checked)
                  /\ run' = [run EXCEPT ![p] =
                        [r EXCEPT !.pc = "finally", !.writes = @ + 1,
                                  !.outcome = "returned",
                                  !.payload =
                                     [message |-> "success",
                                      timestamp_to_transform |-> r.last_checked,
                                      batch_id |-> r.batch_id,
                                      uploaded_tables |-> r.uploaded_tables]]]
    /\ UNCHANGED <<now, source, updates, bucket, runs, call, stages>>

\* variant: the watermark written in the finally clause
Finally_writes_watermark(p) ==
    /\ run[p].pc = "finally"
    /\ \E fault \in {"none", "Exception"} :
          run' = [run EXCEPT ![p] =
                    [@ EXCEPT !.pc = "done",
                              !.db_conn = IF fault = "none" THEN "closed"
                                          ELSE "close_failed"]]
    /\ ssm' = update_last_checked(ssm, utc_now_iso)
    /\ UNCHANGED <<now, source, updates, bucket, runs, call, stages>>

\* finally: db_conn.close(); a failure of close() is logged and dropped
Finally(p) ==
    /\ run[p].pc = "finally"
    /\ \E fault \in {"none", "Exception"} :
          run' = [run EXCEPT ![p] =
                    [@ EXCEPT !.pc = "done",
                              !.db_conn = IF fault = "none" THEN "closed"
                                          ELSE "close_failed"]]
    /\ UNCHANGED <<now, ssm, source, updates, bucket, runs, call, stages>>

(* ------------------------------ environment ---------------------------- *)

\* the wall clock advances
Tick ==
    /\ now < MaxTime
    /\ now' = now + 1
    /\ UNCHANGED <<ssm, source, updates, bucket, runs, run, call, stages>>

\* the operational database writes a row of a table: last_updated = now.
\* A row is known by its table and its last_updated instant.
UpdateRow(table) ==
    /\ updates < MaxUpdates
    /\ source' = [source EXCEPT ![table] = @ \cup {[last_updated |-> now]}]
    /\ updates' = updates + 1
    /\ UNCHANGED <<now, ssm, bucket, runs, run, call, stages>>

(* ------------------- the transformer and the loader at rest ------------- *)

\* event.get(name) of a key the event does not carry
None == NoStamp

\* the empty string
EmptyString == [t |-> 0, sep |-> ""]

\* transform.py lambda_handler before its first statement; fault, written and
\* ran record what the invocation has met and done so far
IdleTransform ==
    [pc |-> "idle",
     event |-> [timestamp_to_transform |-> None],
     env |-> [S3_INGESTION_BUCKET |-> TRUE, S3_PROCESSED_BUCKET |-> TRUE],
     last_checked |-> None, idx |-> 1,
     outcome |-> "none", message |-> "none", timestamp |-> None,
     fault |-> "none", written |-> {}, ran |-> <<>>]

\* load.py lambda_handler before its first statement; fault, secret_fetched
\* and queries (the statements conn.run was given, in order) record what the
\* invocation has met and done so far
IdleLoad ==
    [pc |-> "idle",
     event |-> [timestamp |-> None, timestamp_to_transform |-> None],
     env |-> [S3_PROCESSED_BUCKET |-> TRUE, DB_SECRET_NAME |-> TRUE],
     last_checked |-> None, idx |-> 1, df |-> <<>>, row |-> 1,
     loaded |-> <<>>, conn |-> "none",
     outcome |-> "none", message |-> "none", timestamp_loaded |-> None,
     tables_loaded |-> <<>>,
     fault |-> "none", secret_fetched |-> FALSE, queries |-> <<>>,
     start_warehouse |-> <<>>]

StagesIdle ==
    /\ processed = {}
    /\ warehouse = <<>>
    /\ xf = IdleTransform
    /\ ld = IdleLoad

(* ----------------------------- specification --------------------------- *)

NoCall == [op |-> "none", before |-> NoParameters, value |-> NoStamp,
           fault |-> "none", raised |-> FALSE, returned |-> NoStamp]

Init ==
    /\ now = 1
    /\ ssm = NoParameters
    /\ source = [t \in Tables |-> {}]
    /\ updates = 0
    /\ bucket = {}
    /\ runs = 0
    /\ run = [p \in Procs |-> IdleRun]
    /\ call = NoCall
    /\ StagesIdle

Next ==
    \/ Tick
    \/ \E t \in ChangedTables : UpdateRow(t)
    \/ \E p \in Serial :
          \/ Start(p)
          \/ GetLastChecked(p)
          \/ GetDbCredentials(p)
          \/ CreateDbConnection(p)
          \/ GetBucketName(p)
          \/ BatchId(p)
          \/ ExtractNewRows(p)
          \/ Upload(p)
          \/ NewLastChecked(p)
          \/ UpdateLastChecked(p)
          \/ Finally(p)

Spec == Init /\ [][Next]_vars

(* ------------------- the watermark functions called alone -------------- *)

\* the strings a caller may persist
StampValues == {[t |-> t, sep |-> c] : t \in 0..MaxTime, c \in {":", "-"}}

Stores == {NoParameters} \cup {SsmPutParameter(NoParameters, v) : v \in StampValues}

InitApi ==
    /\ now = 1
    /\ ssm \in Stores
    /\ source = [t \in Tables |-> {}]
    /\ updates = 0
    /\ bucket = {}
    /\ runs = 0
    /\ run = [p \in Procs |-> IdleRun]
    /\ call = NoCall
    /\ StagesIdle

\* get_last_checked(ssm_client)
CallGetLastChecked ==
    /\ \E fault \in GetFaults :
          LET got == get_last_checked(SsmGetParameter(ssm, fault))
          IN call' = [op |-> "get", before |-> ssm, value |-> NoStamp,
                      fault |-> fault, raised |-> got.raised,
                      returned |-> got.last_checked]
    /\ UNCHANGED <<now, ssm, source, updates, bucket, runs, run, stages>>

\* update_last_checked(ssm_client, new_value): put_parameter either raises
\* ClientError and changes nothing, or stores the value
CallUpdateLastChecked ==
    /\ \E v \in StampValues, fault \in {"none", "ClientError"} :
          /\ ssm' = IF fault = "none" THEN update_last_checked(ssm, v) ELSE ssm
          /\ call' = [op |-> "update", before |-> ssm, value |-> v,
                      fault |-> fault, raised |-> fault # "none",
                      returned |-> IF fault = "none" THEN v ELSE NoStamp]
    /\ UNCHANGED <<now, source, updates, bucket, runs, run, stages>>

\* update_last_checked(ssm_client, v) followed by get_last_checked(ssm_client)
CallRoundTrip ==
    /\ \E v \in StampValues :
          LET stored == update_last_checked(ssm, v)
              got == get_last_checked(SsmGetParameter(stored, "none"))
          IN /\ ssm' = stored
             /\ call' = [op |-> "round_trip", before |-> ssm, value |-> v,
                         fault |-> "none", raised |-> got.raised,
                         returned |-> got.last_checked]
    /\ UNCHANGED <<now, source, updates, bucket, runs, run, stages>>

NextApi == CallGetLastChecked \/ CallUpdateLastChecked \/ CallRoundTrip

SpecApi == InitApi /\ [][NextApi]_vars

(* -------------------------------- claims ------------------------------- *)

Done(r) == r.pc = "done"
Succeeded(r) == Done(r) /\ r.outcome = "returned"
Raised(r) == Done(r) /\ r.outcome = "raised"

\* C1: a run that has raised, at whatever step, has left the persisted
\* watermark as it was when the run started and has returned no payload.
C1_FailedRunKeepsWatermark ==
    \A p \in Procs :
        Raised(run[p]) => /\ ssm = run[p].start_ssm
                          /\ run[p].payload = NoPayload
                          /\ run[p].writes = 0

\* C1 witness: a run has raised after it had already written an artifact.
C1_Witness ==
    \E p \in Procs : Raised(run[p]) /\ run[p].written # {}
                       /\ run[p].fault = "Exception"

\* C2: a run reads the watermark exactly once, before it queries any table,
\* and writes it at most once, only after every table of the list has been
\* queried and every artifact write has returned.
C2_ReadOnceWriteLast ==
    \A p \in Procs :
        LET r == run[p]
        IN /\ r.reads <= 1
           /\ r.pc \notin {"idle", "get_last_checked"} => r.reads = 1
           /\ r.queried # <<>> => r.reads = 1
           /\ r.writes <= 1
           /\ r.writes = 1 =>
                 /\ r.queried = tables_to_import
                 /\ r.pc \in {"finally", "done"}
                 /\ Len(r.uploaded_tables) = Len(r.nonempty)

\* C2 witness: a run has written the watermark after uploading an artifact.
C2_Witness ==
    \E p \in Procs : run[p].writes = 1 /\ run[p].written # {} /\ run[p].reads = 1

Range(seq) == {seq[i] : i \in 1..Len(seq)}

\* the tables whose rows carry a usable last_updated column
ChangeTracked == Tables \ {"department"}

InSomeArtifact(table, row) ==
    \E o \in bucket : o.key.table = table /\ row \in o.rows

\* C3 (as claimed): never a skipped window.  Between runs, every row of a
\* change-tracked table whose last_updated lies strictly before the persisted
\* watermark (a row no later run will select) is in the artifact of some run.
C3_NeverSkippedWindow ==
    (\A p \in Procs : ~Active(run[p])) =>
        \A table \in ChangeTracked : \A row \in source[table] :
            row.last_updated < Watermark(ssm) => InSomeArtifact(table, row)

\* C4 (as claimed): a run whose table query failed with a database error
\* skips that table, processes every remaining table, returns its success
\* payload and advances the watermark.
C4_QueryFailureSkipsTable ==
    \A p \in Procs :
        (Done(run[p]) /\ run[p].fault = "DatabaseError") =>
            /\ run[p].outcome = "returned"
            /\ run[p].payload.message = "success"
            /\ run[p].queried = tables_to_import
            /\ run[p].writes = 1

\* C5 (as claimed): for every table a successful run uploaded, the key the
\* transformer heads when given the run's timestamp_to_transform is the key
\* the extractor wrote, so the object is found.
C5_TransformerFindsExtractorFiles ==
    \A p \in Procs :
        Succeeded(run[p]) =>
            \A table \in Range(run[p].payload.uploaded_tables) :
                LET key == TransformKey(table,
                                        run[p].payload.timestamp_to_transform)
                IN /\ key = CsvKey(table, run[p].payload.batch_id)
                   /\ key \in run[p].written
                   /\ check_file_exists(bucket, key)

\* C6: a table whose query returned no row gets no artifact and is not in
\* uploaded_tables; a run in which no call failed succeeds and has persisted
\* its new watermark, also when every table returned no row.
C6_EmptyTablesSkipped ==
    \A p \in Procs :
        LET r == run[p]
        IN /\ \A i \in 1..Len(r.queried) :
                 r.queried[i] \notin Range(r.nonempty) =>
                    /\ r.queried[i] \notin Range(r.uploaded_tables)
                    /\ CsvKey(r.queried[i], r.batch_id) \notin r.written
           /\ (Done(r) /\ r.fault = "none") =>
                 /\ r.outcome = "returned"
                 /\ r.payload.message = "success"
                 /\ r.writes = 1
                 /\ "last_checked" \in DOMAIN ssm
                 /\ ssm["last_checked"] = r.new_last_checked
                 /\ Watermark(ssm) >= Watermark(r.start_ssm)

\* C6 witness: a run in which every table returned no row has succeeded and
\* has written the watermark.
C6_Witness ==
    \E p \in Procs :
        /\ Succeeded(run[p])
        /\ run[p].queried = tables_to_import
        /\ run[p].nonempty = <<>>
        /\ run[p].written = {}
        /\ run[p].writes = 1

\* C7: after a successful run, uploaded_tables is the sub-list, in list
\* order, of the tables whose query returned a row, and the run wrote exactly
\* one object {table}/{batch_id}.csv for each of them.
C7_UploadedTablesExact ==
    \A p \in Procs :
        Succeeded(run[p]) =>
            LET r == run[p]
                Returned(t) == t \in Range(r.nonempty)
            IN /\ r.payload.uploaded_tables = SelectSeq(tables_to_import, Returned)
               /\ r.written = {[table |-> t, stamp |-> r.payload.batch_id] :
                                  t \in Range(r.nonempty)}
               /\ \A k \in r.written : \E o \in bucket : o.key = k /\ o.rows # {}
               /\ Cardinality(r.written) = Len(r.payload.uploaded_tables)

\* C7 witness: one changed row in address and none elsewhere.
C7_Witness ==
    \E p \in Procs :
        /\ Succeeded(run[p])
        /\ run[p].payload.uploaded_tables = <<"address">>
        /\ run[p].written = {CsvKey("address", run[p].batch_id)}

\* C8: get_last_checked returns the persisted value when there is one, the
\* sentinel of instant 0 without raising when the store reports not-found,
\* and raises on every other failure of the retrieval.
C8_GetLastChecked ==
    call.op = "get" =>
        LET present == "last_checked" \in DOMAIN call.before
        IN /\ (call.fault = "none" /\ present) =>
                 ~call.raised /\ call.returned = call.before["last_checked"]
           /\ (call.fault = "none" /\ ~present) =>
                 ~call.raised /\ call.returned = [t |-> 0, sep |-> ":"]
           /\ call.fault # "none" => call.raised

\* C8 witness: the parameter is absent and the sentinel was returned.
C8_Witness ==
    /\ call.op = "get"
    /\ call.fault = "none"
    /\ "last_checked" \notin DOMAIN call.before
    /\ ~call.raised
    /\ call.returned = [t |-> 0, sep |-> ":"]

\* C9: update_last_checked(V) followed by get_last_checked returns V,
\* whatever was persisted before.
C9_RoundTrip ==
    call.op = "round_trip" => ~call.raised /\ call.returned = call.value

\* C9 witness: V was written over a newer persisted value and read back.
C9_Witness ==
    /\ call.op = "round_trip"
    /\ "last_checked" \in DOMAIN call.before
    /\ call.before["last_checked"].t > call.value.t
    /\ call.returned = call.value

\* C10: the persisted watermark never decreases, and after a successful run
\* it is at least the instant the run's batch id was derived from.
C10_WatermarkMonotone ==
    [][/\ Watermark(ssm') >= Watermark(ssm)
       /\ \A p \in Procs :
             (run'[p].pc = "done" /\ run'[p].outcome = "returned") =>
                 Watermark(ssm') >= run'[p].batch_id.t]_vars

\* C10 witness: a second run has succeeded over the watermark of a first.
C10_Witness ==
    \E p \in Procs :
        /\ Succeeded(run[p])
        /\ Watermark(run[p].start_ssm) > 0
        /\ Watermark(ssm) > Watermark(run[p].start_ssm)

(* ---------------------- extract_new_rows called alone ------------------- *)

\* the rows a source table may hold: one per last_updated instant
RowValues == {[last_updated |-> t] : t \in 0..MaxTime}

InitQuery ==
    /\ now = 1
    /\ ssm = NoParameters
    /\ source \in {[t \in Tables |-> IF t \in ChangedTables THEN f[t] ELSE {}] :
                      f \in [ChangedTables -> SUBSET RowValues]}
    /\ updates = 0
    /\ bucket = {}
    /\ runs = 0
    /\ run = [p \in Procs |-> IdleRun]
    /\ call = NoCall
    /\ StagesIdle

\* column_names, new_rows = extract_new_rows(table_name, last_checked, db):
\* the rows of the query, or None after a failure of db_connection.run
CallExtractNewRows ==
    /\ call = NoCall
    /\ \E table \in Tables, t \in 0..MaxTime, fault \in {"none", "DatabaseError"} :
          call' = [op |-> "extract", table |-> table,
                   last_checked |-> IsoFormat(t), fault |-> fault,
                   raised |-> FALSE, none |-> fault # "none",
                   rows |-> IF fault = "none"
                            THEN extract_new_rows(table, IsoFormat(t), source)
                            ELSE {}]
    /\ UNCHANGED <<now, ssm, source, updates, bucket, runs, run, stages>>

NextQuery == CallExtractNewRows

SpecQuery == InitQuery /\ [][NextQuery]_vars

\* C11: for a table other than department extract_new_rows returns exactly
\* the rows whose last_updated is strictly after the watermark, for
\* department every row; an empty result is an empty row list, not an error.
C11_StrictlyNewerRows ==
    (call.op = "extract" /\ call.fault = "none") =>
        /\ ~call.raised /\ ~call.none
        /\ call.rows \subseteq source[call.table]
        /\ \A r \in source[call.table] :
              r \in call.rows <=>
                 (call.table = "department" \/ r.last_updated > call.last_checked.t)

\* C11 witness: a row updated exactly at the watermark instant is left out of
\* the result of a change-tracked table, which is empty.
C11_Witness ==
    /\ call.op = "extract"
    /\ call.fault = "none"
    /\ call.table = "address"
    /\ [last_updated |-> call.last_checked.t] \in source["address"]
    /\ call.rows = {}
    /\ ~call.none

(* ------------------------------ the loader ----------------------------- *)

\* rows of one artifact in this model
MaxArtifactRows == 2
\* rows a warehouse table holds before a load in this model
MaxExistingRows == 1

\* variant: the staff dimension moved to the head of the list
TABLE_CONFIG_staff_first ==
    <<<<"dim_staff", "dim_staff">>, <<"dim_currency", "dim_currency">>,
      <<"dim_location", "dim_location">>, <<"dim_design", "dim_design">>,
      <<"dim_counterparty", "dim_counterparty">>,
      <<"fact_sales_order", "fact_sales_order">>>>

TABLE_CONFIG ==
    <<<<"dim_currency", "dim_currency">>, <<"dim_location", "dim_location">>,
      <<"dim_design", "dim_design">>, <<"dim_staff", "dim_staff">>,
      <<"dim_counterparty", "dim_counterparty">>,
      <<"fact_sales_order", "fact_sales_order">>>>

\* "dim_date/dim_date.parquet"
DIM_DATE_KEY ==
    [table |-> "dim_date", stamp |-> [t |-> 0, sep |-> "dim_date"],
     ext |-> "parquet"]

WarehouseTables ==
    {TABLE_CONFIG[i][2] : i \in 1..Len(TABLE_CONFIG)} \cup {"dim_date"}

\* the warehouse tables that hold rows and have artifacts in this model
LoadTables == {"dim_currency", "dim_staff", "dim_date"}

\* the timestamp the artifacts of this model were written under, and another
ArtifactStamp == IsoFormat(1)
OtherStamp == IsoFormat(2)

\* bool(value) of an event field
Truthy(v) == v # None /\ v # EmptyString

\* variant: the two event keys read in the other order
FirstTruthy_second_key_first(a, b) == IF Truthy(b) THEN b ELSE a

\* a or b
FirstTruthy(a, b) == IF Truthy(a) THEN a ELSE b

\* variant: the key built without the batch timestamp
parquet_key_fixed_name(prefix, last_checked) ==
    [table |-> prefix, stamp |-> [t |-> 0, sep |-> prefix], ext |-> "parquet"]

\* parquet_key = f"{prefix}/{last_checked}.parquet"
parquet_key(prefix, last_checked) ==
    [table |-> prefix, stamp |-> last_checked, ext |-> "parquet"]

\* variant: every key reported as found
s3_object_exists_always(objects, key) == TRUE

\* s3_object_exists(bucket, key): head_object found the key
s3_object_exists(objects, key) == \E o \in objects : o.key = key

\* wr.s3.read_parquet(path): the rows of the object (the loader reads only
\* keys it has found)
read_parquet(objects, key) ==
    LET found == {o \in objects : o.key = key}
    IN IF found = {} THEN <<>> ELSE (CHOOSE o \in found : TRUE).rows

\* df.where(pd.notnull(df), None): NaN becomes the database null, in every
\* column that can hold it
NanToNone(row) ==
    LET none(v) == IF v = "NaN" THEN "NULL" ELSE v
    IN IF "joined" \in DOMAIN row
       THEN [row EXCEPT !.value = none(@), !.joined = none(@)]
       ELSE [row EXCEPT !.value = none(@)]

\* variant: the table left as it is before the inserts
truncate_table_skipped(tables, table_name) == tables

\* TRUNCATE TABLE table_name
truncate_table(tables, table_name) == [tables EXCEPT ![table_name] = <<>>]

\* INSERT INTO table_name (...) VALUES (...), one row
InsertRow(tables, table_name, row) ==
    [tables EXCEPT ![table_name] = Append(@, NanToNone(row))]

\* the artifact of m rows and the k rows a table holds beforehand
ArtifactRows(m) ==
    [i \in 1..m |-> [id |-> i, value |-> IF i = 1 THEN "NaN" ELSE "v"]]
ExistingRows(k) == [i \in 1..k |-> [id |-> 0 - i, value |-> "old"]]

\* the key of a warehouse table's artifact for a timestamp
ArtifactKey(table, stamp) ==
    IF table = "dim_date" THEN DIM_DATE_KEY ELSE parquet_key(table, stamp)

Absent == 0 - 1

InitLoad ==
    /\ now = 1
    /\ ssm = NoParameters
    /\ source = [t \in Tables |-> {}]
    /\ updates = 0
    /\ bucket = {}
    /\ runs = 0
    /\ run = [p \in Procs |-> IdleRun]
    /\ call = NoCall
    /\ xf = IdleTransform
    /\ ld = IdleLoad
    /\ \E m \in [LoadTables -> {Absent} \cup (0..MaxArtifactRows)] :
          processed = {[key |-> ArtifactKey(t, ArtifactStamp),
                        rows |-> ArtifactRows(m[t])] :
                           t \in {u \in LoadTables : m[u] # Absent}}
    /\ \E k \in [LoadTables -> 0..MaxExistingRows] :
          warehouse = [t \in WarehouseTables |->
                          IF t \in LoadTables THEN ExistingRows(k[t]) ELSE <<>>]

LoadEvents ==
    [timestamp : {None, EmptyString, ArtifactStamp},
     timestamp_to_transform : {None, OtherStamp}]

LoadEnvironments == [S3_PROCESSED_BUCKET : BOOLEAN, DB_SECRET_NAME : BOOLEAN]

\* an exception raised before the try block of the loader is entered
LdRaiseBeforeTry(l, fault) ==
    [l EXCEPT !.pc = "done", !.outcome = "raised", !.fault = fault]

\* variant: the failure logged and the loop carrying on with the next table
LdRaiseInTry_next_table(l, fault) ==
    [l EXCEPT !.pc = "exists", !.idx = @ + 1, !.fault = fault]

\* an exception raised inside the try block: it leaves through finally
LdRaiseInTry(l, fault) ==
    [l EXCEPT !.pc = "finally", !.outcome = "raised", !.fault = fault]

\* the scheduler invokes the loader's lambda_handler(event, context)
LdStart ==
    /\ ld.pc = "idle"
    /\ \E event \in LoadEvents, env \in LoadEnvironments :
          ld' = [IdleLoad EXCEPT !.pc = "check_env", !.event = event,
                                 !.env = env, !.start_warehouse = warehouse]
    /\ UNCHANGED <<now, ssm, source, updates, bucket, runs, run, call,
                   processed, warehouse, xf>>

\* processed_bucket = os.environ.get("S3_PROCESSED_BUCKET")
LdCheckEnv ==
    /\ ld.pc = "check_env"
    /\ ld' = IF ~ld.env.S3_PROCESSED_BUCKET
             THEN LdRaiseBeforeTry(ld, "ValueError")
             ELSE [ld EXCEPT !.pc = "timestamp"]
    /\ UNCHANGED <<now, ssm, source, updates, bucket, runs, run, call,
                   processed, warehouse, xf>>

\* last_checked = event.get("timestamp") or event.get("timestamp_to_transform")
LdTimestamp ==
    /\ ld.pc = "timestamp"
    /\ LET chosen == FirstTruthy(ld.event.timestamp,
                                 ld.event.timestamp_to_transform)
       IN ld' = IF ~Truthy(chosen)
                THEN LdRaiseBeforeTry(ld, "ValueError")
                ELSE [ld EXCEPT !.pc = "get_db_credentials",
                                !.last_checked = chosen]
    /\ UNCHANGED <<now, ssm, source, updates, bucket, runs, run, call,
                   processed, warehouse, xf>>

\* db_credentials = get_db_credentials(sm_client)
LdGetDbCredentials ==
    /\ ld.pc = "get_db_credentials"
    /\ \E fault \in {"none", "ResourceNotFoundException", "ClientError"} :
          ld' = IF ~ld.env.DB_SECRET_NAME
                THEN LdRaiseBeforeTry(ld, "ValueError")
                ELSE IF fault # "none"
                THEN LdRaiseBeforeTry([ld EXCEPT !.secret_fetched = TRUE], fault)
                ELSE [ld EXCEPT !.pc = "create_db_connection",
                                !.secret_fetched = TRUE]
    /\ UNCHANGED <<now, ssm, source, updates, bucket, runs, run, call,
                   processed, warehouse, xf>>

\* conn = create_db_connection(db_credentials); loaded = []
LdCreateDbConnection ==
    /\ ld.pc = "create_db_connection"
    /\ \E fault \in {"none", "KeyError", "InterfaceError"} :
          ld' = IF fault # "none"
                THEN LdRaiseBeforeTry(ld, fault)
                ELSE [ld EXCEPT !.pc = "exists", !.conn = "open",
                                !.idx = 1, !.loaded = <<>>]
    /\ UNCHANGED <<now, ssm, source, updates, bucket, runs, run, call,
                   processed, warehouse, xf>>

\* the table the loop is at: the pairs of TABLE_CONFIG, then dim_date
LdTarget(l) ==
    IF l.idx <= Len(TABLE_CONFIG) THEN TABLE_CONFIG[l.idx][2] ELSE "dim_date"

LdKey(l) ==
    IF l.idx <= Len(TABLE_CONFIG)
    THEN parquet_key(TABLE_CONFIG[l.idx][1], l.last_checked)
    ELSE DIM_DATE_KEY

LdLoopFinished(l) == l.idx > Len(TABLE_CONFIG) + 1

\* if not s3_object_exists(...): continue;  df = wr.s3.read_parquet(path)
LdExists ==
    /\ ld.pc = "exists"
    /\ ~LdLoopFinished(ld)
    /\ \E fault \in {"none", "ClientError"} :
          ld' = IF fault # "none"
                THEN LdRaiseInTry(ld, fault)
                ELSE IF ~s3_object_exists(processed, LdKey(ld))
                THEN [ld EXCEPT !.idx = @ + 1]
                ELSE [ld EXCEPT !.pc = "truncate",
                                !.df = read_parquet(processed, LdKey(ld))]
    /\ UNCHANGED <<now, ssm, source, updates, bucket, runs, run, call,
                   processed, warehouse, xf>>

\* truncate_table(conn, target_table)
LdTruncate ==
    /\ ld.pc = "truncate"
    /\ \E fault \in {"none", "DatabaseError"} :
          IF fault # "none"
          THEN /\ ld' = LdRaiseInTry(ld, fault)
               /\ warehouse' = warehouse
          ELSE /\ warehouse' = truncate_table(warehouse, LdTarget(ld))
               /\ ld' = [ld EXCEPT !.pc = "insert", !.row = 1,
                            !.queries = Append(@, [op |-> "TRUNCATE",
                                                   table |-> LdTarget(ld)])]
    /\ UNCHANGED <<now, ssm, source, updates, bucket, runs, run, call,
                   processed, xf>>

\* insert_dataframe: conn.run(INSERT ...) for the next row of df
LdInsertRow ==
    /\ ld.pc = "insert"
    /\ ld.row <= Len(ld.df)
    /\ \E fault \in {"none", "DatabaseError"} :
          IF fault # "none"
          THEN /\ ld' = LdRaiseInTry(ld, fault)
               /\ warehouse' = warehouse
          ELSE /\ warehouse' = InsertRow(warehouse, LdTarget(ld), ld.df[ld.row])
               /\ ld' = [ld EXCEPT !.row = @ + 1,
                            !.queries = Append(@, [op |-> "INSERT",
                                                   table |-> LdTarget(ld)])]
    /\ UNCHANGED <<now, ssm, source, updates, bucket, runs, run, call,
                   processed, xf>>

\* insert_dataframe has returned (at once for an empty df): loaded.append(...)
LdLoaded ==
    /\ ld.pc = "insert"
    /\ ld.row > Len(ld.df)
    /\ ld' = [ld EXCEPT !.pc = "exists", !.idx = @ + 1,
                        !.loaded = Append(@, LdTarget(ld))]
    /\ UNCHANGED <<now, ssm, source, updates, bucket, runs, run, call,
                   processed, warehouse, xf>>

\* return {"message": "load_success", "timestamp_loaded": ..., "tables_loaded": ...}
LdReturn ==
    /\ ld.pc = "exists"
    /\ LdLoopFinished(ld)
    /\ ld' = [ld EXCEPT !.pc = "finally", !.outcome = "returned",
                        !.message = "load_success",
                        !.timestamp_loaded = ld.last_checked,
                        !.tables_loaded = ld.loaded]
    /\ UNCHANGED <<now, ssm, source, updates, bucket, runs, run, call,
                   processed, warehouse, xf>>

\* finally: conn.close(); a failure of close() is logged and dropped
LdFinally ==
    /\ ld.pc = "finally"
    /\ \E fault \in {"none", "Exception"} :
          ld' = [ld EXCEPT !.pc = "done",
                           !.conn = IF fault = "none" THEN "closed"
                                    ELSE "close_failed"]
    /\ UNCHANGED <<now, ssm, source, updates, bucket, runs, run, call,
                   processed, warehouse, xf>>

NextLoad ==
    \/ LdStart
    \/ LdCheckEnv
    \/ LdTimestamp
    \/ LdGetDbCredentials
    \/ LdCreateDbConnection
    \/ LdExists
    \/ LdTruncate
    \/ LdInsertRow
    \/ LdLoaded
    \/ LdReturn
    \/ LdFinally

SpecLoad == InitLoad /\ [][NextLoad]_vars

LdReturned == ld.pc = "done" /\ ld.outcome = "returned"

StatementsOn(table) ==
    LET On(q) == q.table = table IN SelectSeq(ld.queries, On)

ArtifactPresent(table) ==
    \E o \in processed : o.key = ArtifactKey(table, ld.last_checked)

\* C12: after a successful load, every target table whose artifact exists was
\* given exactly one TRUNCATE followed by exactly M single-row INSERTs, M the
\* row count of the artifact, and holds exactly the M artifact rows (NaN as
\* null) and none of the rows it held before.
C12_TableReplaced ==
    LdReturned =>
        \A table \in WarehouseTables :
            ArtifactPresent(table) =>
                LET art == (CHOOSE o \in processed :
                               o.key = ArtifactKey(table, ld.last_checked)).rows
                    stmts == StatementsOn(table)
                    held == warehouse[table]
                IN /\ Len(stmts) = Len(art) + 1
                   /\ stmts[1].op = "TRUNCATE"
                   /\ \A i \in 2..Len(stmts) : stmts[i].op = "INSERT"
                   /\ Len(held) = Len(art)
                   /\ \A i \in 1..Len(held) :
                         /\ held[i].id = art[i].id
                         /\ held[i].value = IF art[i].value = "NaN" THEN "NULL"
                                            ELSE art[i].value
                         /\ held[i].value # "old"

\* C12 witness: a table of one prior row has been replaced by an artifact of
\* two rows.
C12_Witness ==
    /\ LdReturned
    /\ ArtifactPresent("dim_staff")
    /\ Len(ld.start_warehouse["dim_staff"]) = 1
    /\ Len(warehouse["dim_staff"]) = 2
    /\ "dim_staff" \in Range(ld.tables_loaded)

\* C13: a table whose artifact is absent for the timestamp receives no
\* statement, keeps its rows and is not among the loaded tables; its absence
\* raises nothing, and the tables whose artifact exists are still loaded.
C13_AbsentArtifactSkipped ==
    /\ \A table \in WarehouseTables :
          (ld.pc # "idle" /\ ~ArtifactPresent(table)) =>
              /\ StatementsOn(table) = <<>>
              /\ warehouse[table] = ld.start_warehouse[table]
              /\ table \notin Range(ld.loaded)
    /\ (ld.pc = "done" /\ ld.fault = "none") =>
          /\ ld.outcome = "returned"
          /\ \A table \in WarehouseTables :
                ArtifactPresent(table) <=> table \in Range(ld.tables_loaded)

\* C13 witness: the first table's artifact was absent, its row was kept, and
\* a later table was loaded.
C13_Witness ==
    /\ LdReturned
    /\ ~ArtifactPresent("dim_currency")
    /\ Len(warehouse["dim_currency"]) = 1
    /\ "dim_staff" \in Range(ld.tables_loaded)

\* the loader has evaluated its timestamp expression
LdPastTimestamp ==
    ld.pc \notin {"idle", "check_env", "timestamp"} /\ ld.env.S3_PROCESSED_BUCKET

LdNothingTouched ==
    /\ ld.pc = "done" /\ ld.outcome = "raised"
    /\ ~ld.secret_fetched
    /\ ld.conn = "none"
    /\ ld.queries = <<>>
    /\ warehouse = ld.start_warehouse

\* C14 (as claimed): the loader uses event["timestamp"] when that key is
\* present and otherwise event["timestamp_to_transform"], returns the value
\* it used as timestamp_loaded, and with neither key present raises before
\* any secret is fetched, connection opened or table modified.
C14_TimestampWhenPresent ==
    LdPastTimestamp =>
        LET ts == ld.event.timestamp
            tt == ld.event.timestamp_to_transform
            used == IF ts # None THEN ts ELSE tt
        IN IF ts # None \/ tt # None
           THEN /\ ld.last_checked = used
                /\ LdReturned => ld.timestamp_loaded = used
           ELSE LdNothingTouched

\* C14 (amended): the same with "present and non-empty" for "present".
C14_TimestampWhenNonEmpty ==
    LdPastTimestamp =>
        LET ts == ld.event.timestamp
            tt == ld.event.timestamp_to_transform
            nonempty(v) == v # None /\ v # EmptyString
            used == IF nonempty(ts) THEN ts ELSE tt
        IN IF nonempty(ts) \/ nonempty(tt)
           THEN /\ ld.last_checked = used
                /\ LdReturned => ld.timestamp_loaded = used
           ELSE LdNothingTouched

\* C14 witness: the event carries an empty "timestamp" and the loader has
\* returned the value of "timestamp_to_transform".
C14_Witness ==
    /\ LdReturned
    /\ ld.event.timestamp = EmptyString
    /\ ld.timestamp_loaded = ld.event.timestamp_to_transform
    /\ ld.timestamp_loaded = OtherStamp

(* ---------------------------- the transformer --------------------------- *)

\* the raw tables the builders read
RawTables ==
    {"sales_order", "currency", "address", "design", "staff", "department",
     "counterparty"}

\* the builders in the order lambda_handler calls them
Builders ==
    <<"fact_sales_order", "dim_currency", "dim_location", "dim_design",
      "dim_staff", "dim_counterparty">>

\* start="2020-01-01", end="2030-12-31", as day numbers of this model
DateStart == 1
DateEnd == 2

\* the rows of a raw artifact: an id, a value column, a reference column
\* (department_id, legal_address_id) and last_updated; the reference of the
\* last row names no row
RawRows(tag) ==
    [i \in 1..MaxArtifactRows |->
        [id |-> i, value |-> IF i = 1 THEN "NaN" ELSE tag, ref |-> i + 1,
         last_updated |-> 1]]

\* wr.s3.read_csv(path)
read_csv(objects, key) == (CHOOSE o \in objects : o.key = key).rows

\* f"s3://{processed_bucket}/{name}/{last_checked}.parquet"
ProcessedKey(name, last_checked) ==
    [table |-> name, stamp |-> last_checked, ext |-> "parquet"]

\* f"s3://{processed_bucket}/dim_date/dim_date.parquet"
DimDateKey ==
    [table |-> "dim_date", stamp |-> [t |-> 0, sep |-> "dim_date"],
     ext |-> "parquet"]

\* wr.s3.to_parquet(df, path)
to_parquet(objects, key, rows) == PutObject(objects, key, rows)

\* df.drop(columns=[...]) / df[final_columns]: the columns that are kept
KeptColumns(rows) ==
    [i \in DOMAIN rows |->
        [id |-> rows[i].id, value |-> rows[i].value, joined |-> "none"]]

\* a left row with the columns of a right row joined to it
JoinRow(l, joined) == [id |-> l.id, value |-> l.value, joined |-> joined]

\* variant: an inner merge, a left row without a match dropped
MergeOne_inner(l, right) ==
    LET Same(r) == r.id = l.ref
        m == SelectSeq(right, Same)
    IN [j \in 1..Len(m) |-> JoinRow(l, m[j].value)]

\* the rows a left merge makes of one left row: one per right row with the
\* same key, in the right frame's order; one with NaN when there is none
MergeOne(l, right) ==
    LET Same(r) == r.id = l.ref
        m == SelectSeq(right, Same)
    IN IF m = <<>> THEN <<JoinRow(l, "NaN")>>
       ELSE [j \in 1..Len(m) |-> JoinRow(l, m[j].value)]

RECURSIVE LeftMergeFrom(_, _, _)
LeftMergeFrom(left, right, i) ==
    IF i > Len(left) THEN <<>>
    ELSE MergeOne(left[i], right) \o LeftMergeFrom(left, right, i + 1)

\* left.merge(right, how="left") on the reference column, then the drop of
\* the key, manager and bookkeeping columns: the left frame's order is kept
LeftMerge(left, right) == LeftMergeFrom(left, right, 1)

\* what a builder did: the processed bucket afterwards, the keys it wrote,
\* and whether it raised
Skipped(processed_bucket) ==
    [raised |-> FALSE, objects |-> processed_bucket, written |-> {}]

Wrote(processed_bucket, key, rows) ==
    [raised |-> FALSE, objects |-> to_parquet(processed_bucket, key, rows),
     written |-> {key}]

\* the builders that read one raw artifact: fact_sales_order, dim_currency,
\* dim_location, dim_design
BuildFrom(raw, name, last_checked, ingestion_bucket, processed_bucket) ==
    LET key == TransformKey(raw, last_checked)
    IN IF ~check_file_exists(ingestion_bucket, key)
       THEN Skipped(processed_bucket)
       ELSE Wrote(processed_bucket, ProcessedKey(name, last_checked),
                  KeptColumns(read_csv(ingestion_bucket, key)))

fact_sales_order(last_checked, ingestion_bucket, processed_bucket) ==
    BuildFrom("sales_order", "fact_sales_order", last_checked,
              ingestion_bucket, processed_bucket)

dim_currency(last_checked, ingestion_bucket, processed_bucket) ==
    BuildFrom("currency", "dim_currency", last_checked,
              ingestion_bucket, processed_bucket)

dim_location(last_checked, ingestion_bucket, processed_bucket) ==
    BuildFrom("address", "dim_location", last_checked,
              ingestion_bucket, processed_bucket)

dim_design(last_checked, ingestion_bucket, processed_bucket) ==
    BuildFrom("design", "dim_design", last_checked,
              ingestion_bucket, processed_bucket)

dim_staff(last_checked, ingestion_bucket, processed_bucket) ==
    LET staff_key == TransformKey("staff", last_checked)
        dept_key == TransformKey("department", last_checked)
    IN IF ~check_file_exists(ingestion_bucket, staff_key)
       THEN Skipped(processed_bucket)
       ELSE LET staff_df == read_csv(ingestion_bucket, staff_key)
                df == IF check_file_exists(ingestion_bucket, dept_key)
                      THEN LeftMerge(staff_df,
                                     read_csv(ingestion_bucket, dept_key))
                      ELSE KeptColumns(staff_df)
            IN Wrote(processed_bucket, ProcessedKey("dim_staff", last_checked),
                     df)

\* the keys one call of list_objects_v2 returns at most
ListMaxKeys == 1000

\* the order S3 lists keys in: "address/{stamp}.csv" by its stamp
KeyBefore(a, b) == a.stamp.t < b.stamp.t

\* s3_client.list_objects_v2(Bucket, Prefix="address/"), called once and
\* without a continuation: the first ListMaxKeys keys with the prefix, in key
\* order; the response carries "Contents" only when some key has the prefix
ListAddressObjects(ingestion_bucket) ==
    LET all == {o \in ingestion_bucket : o.key.table = "address"}
    IN IF Cardinality(all) <= ListMaxKeys THEN all
       ELSE {o \in all :
                Cardinality({q \in all : KeyBefore(q.key, o.key)}) < ListMaxKeys}

\* max(response["Contents"], key=lambda x: x["LastModified"])
LatestModified(contents) ==
    CHOOSE o \in contents : \A q \in contents : q.modified <= o.modified

\* response["Contents"] of a response without that key raises KeyError
dim_counterparty(last_checked, ingestion_bucket, processed_bucket) ==
    LET cp_key == TransformKey("counterparty", last_checked)
        contents == ListAddressObjects(ingestion_bucket)
    IN IF ~check_file_exists(ingestion_bucket, cp_key)
       THEN Skipped(processed_bucket)
       ELSE IF contents = {}
       THEN [raised |-> TRUE, objects |-> processed_bucket, written |-> {}]
       ELSE Wrote(processed_bucket,
                  ProcessedKey("dim_counterparty", last_checked),
                  LeftMerge(read_csv(ingestion_bucket, cp_key),
                            LatestModified(contents).rows))

\* variant: the range taken without its end day
DateRows_end_excluded(start, end) ==
    [i \in 1..(end - start) |->
        [id |-> start + i - 1, value |-> "v", joined |-> "none"]]

\* pd.date_range(start, end): one row per day, both ends included
DateRows(start, end) ==
    [i \in 1..(end - start + 1) |->
        [id |-> start + i - 1, value |-> "v", joined |-> "none"]]

dim_date(processed_bucket, start, end) ==
    Wrote(processed_bucket, DimDateKey, DateRows(start, end))

Build(name, last_checked, ingestion_bucket, processed_bucket) ==
    CASE name = "fact_sales_order" ->
            fact_sales_order(last_checked, ingestion_bucket, processed_bucket)
      [] name = "dim_currency" ->
            dim_currency(last_checked, ingestion_bucket, processed_bucket)
      [] name = "dim_location" ->
            dim_location(last_checked, ingestion_bucket, processed_bucket)
      [] name = "dim_design" ->
            dim_design(last_checked, ingestion_bucket, processed_bucket)
      [] name = "dim_staff" ->
            dim_staff(last_checked, ingestion_bucket, processed_bucket)
      [] name = "dim_counterparty" ->
            dim_counterparty(last_checked, ingestion_bucket, processed_bucket)

TransformEvents == [timestamp_to_transform : {None, EmptyString, ArtifactStamp}]

TransformEnvironments ==
    [S3_INGESTION_BUCKET : BOOLEAN, S3_PROCESSED_BUCKET : BOOLEAN]

\* the raw bucket holds any subset of the raw artifacts of one timestamp and
\* possibly an address artifact of another batch, modified earlier or later;
\* the processed bucket may hold a date dimension written before
InitTransform ==
    /\ now = 1
    /\ ssm = NoParameters
    /\ source = [t \in Tables |-> {}]
    /\ updates = 0
    /\ runs = 0
    /\ run = [p \in Procs |-> IdleRun]
    /\ call = NoCall
    /\ xf = IdleTransform
    /\ ld = IdleLoad
    /\ \E present \in SUBSET RawTables, other \in {"none", "older", "newer"} :
          bucket =
             {[key |-> TransformKey(t, ArtifactStamp), rows |-> RawRows(t),
               modified |-> 1] : t \in present}
             \cup (IF other = "none" THEN {}
                   ELSE {[key |-> TransformKey("address", OtherStamp),
                          rows |-> RawRows("other_batch"),
                          modified |-> IF other = "older" THEN 0 ELSE 2]})
    /\ \E stale \in BOOLEAN :
          processed =
             IF stale
             THEN {[key |-> DimDateKey,
                    rows |-> <<[id |-> 0, value |-> "stale",
                                joined |-> "none"]>>]}
             ELSE {}
    /\ warehouse = [t \in WarehouseTables |-> ExistingRows(MaxExistingRows)]

\* an exception raised in transform.py lambda_handler: nothing catches it
XfRaise(x, fault) ==
    [x EXCEPT !.pc = "done", !.outcome = "raised", !.fault = fault]

\* the scheduler invokes the transformer's lambda_handler(event, context)
XfStart ==
    /\ xf.pc = "idle"
    /\ \E event \in TransformEvents, env \in TransformEnvironments :
          xf' = [IdleTransform EXCEPT !.pc = "check_event", !.event = event,
                                      !.env = env]
    /\ UNCHANGED <<now, ssm, source, updates, bucket, runs, run, call,
                   processed, warehouse, ld>>

\* last_checked = event.get("timestamp_to_transform"); if not last_checked: raise
XfCheckEvent ==
    /\ xf.pc = "check_event"
    /\ xf' = IF ~Truthy(xf.event.timestamp_to_transform)
             THEN XfRaise(xf, "ValueError")
             ELSE [xf EXCEPT !.pc = "check_env",
                             !.last_checked = xf.event.timestamp_to_transform]
    /\ UNCHANGED <<now, ssm, source, updates, bucket, runs, run, call,
                   processed, warehouse, ld>>

\* if not ingestion_bucket or not processed_bucket: raise
XfCheckEnv ==
    /\ xf.pc = "check_env"
    /\ xf' = IF ~xf.env.S3_INGESTION_BUCKET \/ ~xf.env.S3_PROCESSED_BUCKET
             THEN XfRaise(xf, "ValueError")
             ELSE [xf EXCEPT !.pc = "build", !.idx = 1]
    /\ UNCHANGED <<now, ssm, source, updates, bucket, runs, run, call,
                   processed, warehouse, ld>>

\* variant: a builder that removes the raw artifacts of its timestamp once
\* it has written its own
XfBuild_consumes_raw ==
    /\ xf.pc = "build"
    /\ xf.idx <= Len(Builders)
    /\ \E fault \in {"none", "ClientError"} :
          LET name == Builders[xf.idx]
              built == Build(name, xf.last_checked, bucket, processed)
          IN IF fault # "none"
             THEN /\ xf' = XfRaise(xf, fault)
                  /\ processed' = processed
                  /\ bucket' = bucket
             ELSE IF built.raised
             THEN /\ xf' = XfRaise(xf, "KeyError")
                  /\ processed' = processed
                  /\ bucket' = bucket
             ELSE /\ processed' = built.objects
                  /\ bucket' = IF built.written = {} THEN bucket
                                ELSE {o \in bucket :
                                        o.key.stamp # xf.last_checked}
                  /\ xf' = [xf EXCEPT !.idx = @ + 1,
                                      !.ran = Append(@, name),
                                      !.written = @ \cup built.written]
    /\ UNCHANGED <<now, ssm, source, updates, runs, run, call,
                   warehouse, ld>>

\* the next builder call of lines 33-38; a storage failure (a head_object
\* error other than 404, a failed read or write) leaves the handler
XfBuild ==
    /\ xf.pc = "build"
    /\ xf.idx <= Len(Builders)
    /\ \E fault \in {"none", "ClientError"} :
          LET name == Builders[xf.idx]
              built == Build(name, xf.last_checked, bucket, processed)
          IN IF fault # "none"
             THEN /\ xf' = XfRaise(xf, fault)
                  /\ processed' = processed
             ELSE IF built.raised
             THEN /\ xf' = XfRaise(xf, "KeyError")
                  /\ processed' = processed
             ELSE /\ processed' = built.objects
                  /\ xf' = [xf EXCEPT !.idx = @ + 1,
                                      !.ran = Append(@, name),
                                      !.written = @ \cup built.written]
    /\ UNCHANGED <<now, ssm, source, updates, bucket, runs, run, call,
                   warehouse, ld>>

\* dim_date(processed_bucket=..., start="2020-01-01", end="2030-12-31")
XfDimDate ==
    /\ xf.pc = "build"
    /\ xf.idx > Len(Builders)
    /\ \E fault \in {"none", "ClientError"} :
          LET built == dim_date(processed, DateStart, DateEnd)
          IN IF fault # "none"
             THEN /\ xf' = XfRaise(xf, fault)
                  /\ processed' = processed
             ELSE /\ processed' = built.objects
                  /\ xf' = [xf EXCEPT !.pc = "return",
                                      !.ran = Append(@, "dim_date"),
                                      !.written = @ \cup built.written]
    /\ UNCHANGED <<now, ssm, source, updates, bucket, runs, run, call,
                   warehouse, ld>>

\* return {"message": "transform_success", "timestamp": last_checked}
XfReturn ==
    /\ xf.pc = "return"
    /\ xf' = [xf EXCEPT !.pc = "done", !.outcome = "returned",
                        !.message = "transform_success",
                        !.timestamp = xf.last_checked]
    /\ UNCHANGED <<now, ssm, source, updates, bucket, runs, run, call,
                   processed, warehouse, ld>>

\* the loader invoked with the value the transformer returned as its event
LdStartAfterTransform ==
    /\ ld.pc = "idle"
    /\ xf.pc = "done" /\ xf.outcome = "returned"
    /\ \E env \in LoadEnvironments :
          ld' = [IdleLoad EXCEPT !.pc = "check_env",
                                 !.event = [timestamp |-> xf.timestamp,
                                            timestamp_to_transform |-> None],
                                 !.env = env, !.start_warehouse = warehouse]
    /\ UNCHANGED <<now, ssm, source, updates, bucket, runs, run, call,
                   processed, warehouse, xf>>

NextTransform ==
    \/ XfStart
    \/ XfCheckEvent
    \/ XfCheckEnv
    \/ XfBuild
    \/ XfDimDate
    \/ XfReturn
    \/ LdStartAfterTransform
    \/ LdCheckEnv
    \/ LdTimestamp
    \/ LdGetDbCredentials
    \/ LdCreateDbConnection
    \/ LdExists
    \/ LdTruncate
    \/ LdInsertRow
    \/ LdLoaded
    \/ LdReturn
    \/ LdFinally

SpecTransform == InitTransform /\ [][NextTransform]_vars

XfReturned == xf.pc = "done" /\ xf.outcome = "returned"

\* C15: the transformer returns as timestamp the timestamp_to_transform it
\* was given; a loader invoked with that result and meeting no failure looks
\* up, for every artifact the transformer wrote, the key that was written
\* ({name}/{timestamp}.parquet, the fixed key for the date dimension) and
\* loads its rows into the table of the same name.
C15_Handoff ==
    LET given == xf.event.timestamp_to_transform
    IN /\ XfReturned => xf.timestamp = given
       /\ ld.pc # "idle" => XfReturned /\ ld.event.timestamp = given
       /\ (ld.pc = "done" /\ ld.fault = "none") =>
             /\ LdReturned
             /\ ld.timestamp_loaded = given
             /\ \A key \in xf.written :
                   LET name == key.table
                       art == (CHOOSE o \in processed : o.key = key).rows
                       held == warehouse[name]
                       none(v) == IF v = "NaN" THEN "NULL" ELSE v
                   IN /\ key = [table |-> name,
                                stamp |-> IF name = "dim_date"
                                          THEN [t |-> 0, sep |-> "dim_date"]
                                          ELSE given,
                                ext |-> "parquet"]
                      /\ name \in Range(ld.tables_loaded)
                      /\ Len(held) = Len(art)
                      /\ \A i \in 1..Len(art) :
                            /\ held[i].id = art[i].id
                            /\ held[i].value = none(art[i].value)
                            /\ held[i].joined = none(art[i].joined)

\* C15 witness: the loader has loaded the counterparty dimension a
\* transformer run wrote, unmatched addresses as nulls.
C15_Witness ==
    /\ LdReturned
    /\ ProcessedKey("dim_counterparty", ArtifactStamp) \in xf.written
    /\ "dim_counterparty" \in Range(ld.tables_loaded)
    /\ Len(warehouse["dim_counterparty"]) = MaxArtifactRows
    /\ \E i \in 1..MaxArtifactRows :
          warehouse["dim_counterparty"][i].joined = "NULL"

\* the raw artifact a builder requires
RequiredRaw(name) ==
    CASE name = "fact_sales_order" -> "sales_order"
      [] name = "dim_currency" -> "currency"
      [] name = "dim_location" -> "address"
      [] name = "dim_design" -> "design"
      [] name = "dim_staff" -> "staff"
      [] name = "dim_counterparty" -> "counterparty"

\* the transformer was given a timestamp and both bucket names
XfGivenAll ==
    /\ xf.pc # "idle"
    /\ Truthy(xf.event.timestamp_to_transform)
    /\ xf.env.S3_INGESTION_BUCKET /\ xf.env.S3_PROCESSED_BUCKET

\* C19 (as claimed): whatever subset of the raw artifacts of the timestamp is
\* present, a transformer run that meets no storage failure completes without
\* raising; a builder whose required raw artifact is absent writes nothing,
\* every other builder writes its artifact -- the counterparty builder too
\* when no object exists under the address prefix.
C19_EverySubsetCompletes ==
    (xf.pc = "done" /\ XfGivenAll /\ xf.fault # "ClientError") =>
        /\ xf.outcome = "returned"
        /\ \A i \in 1..Len(Builders) :
              LET name == Builders[i]
              IN /\ name \in Range(xf.ran)
                 /\ ProcessedKey(name, xf.last_checked) \in xf.written
                       <=> \E o \in bucket :
                              o.key = TransformKey(RequiredRaw(name),
                                                   xf.last_checked)

\* C20 (as claimed): every transformer run given a timestamp and both bucket
\* names, whose own write of the date dimension does not fail, leaves the
\* regenerated date dimension under its fixed key, whichever raw artifacts
\* exist and whatever happens in the other builders.
C20_DateDimensionRegenerated ==
    (/\ xf.pc = "done" /\ XfGivenAll
     /\ ~(xf.fault = "ClientError" /\ Len(xf.ran) = Len(Builders))) =>
        /\ DimDateKey \in xf.written
        /\ \E o \in processed :
              o.key = DimDateKey /\ o.rows = DateRows(DateStart, DateEnd)

\* C16: when the source database cannot be reached the extractor run has
\* raised the connection error with no table queried, no artifact written,
\* no connection held and the watermark neither written nor changed.
C16_UnreachableDatabaseAborts ==
    \A p \in Serial :
        run[p].fault = "InterfaceError" =>
            /\ Raised(run[p])
            /\ run[p].queried = <<>>
            /\ run[p].written = {}
            /\ run[p].writes = 0
            /\ run[p].db_conn = "none"
            /\ ssm = run[p].start_ssm

\* C16 witness: a run has met an unreachable database after a watermark had
\* been persisted by an earlier run.
C16_Witness ==
    \E p \in Serial :
        /\ run[p].fault = "InterfaceError"
        /\ Raised(run[p])
        /\ "last_checked" \in DOMAIN ssm

\* C17 (as claimed, for the extractor): a run whose secret name or bucket
\* name is missing raises the configuration error before the watermark is
\* read and before a database connection is opened.
C17_MissingEnvRaisesAtStart ==
    \A p \in Serial :
        (/\ Done(run[p])
         /\ ~run[p].env.DB_SECRET_NAME \/ ~run[p].env.S3_INGESTION_BUCKET) =>
            /\ run[p].outcome = "raised"
            /\ run[p].reads = 0
            /\ run[p].db_conn = "none"

\* C18 (as claimed, for the extractor): a connection that was opened has had
\* close() attempted on it by the time the handler is left, on every path.
C18_CloseAttemptedOnEveryExit ==
    \A p \in Serial :
        Done(run[p]) => run[p].db_conn \in {"none", "closed", "close_failed"}

\* the loader's half of C18 and C17: close() attempted on every exit once
\* the connection is open, and a missing environment value raised before a
\* secret is fetched, a connection opened or a statement sent
LdCloseAttempted ==
    ld.pc = "done" => ld.conn \in {"none", "closed", "close_failed"}

LdMissingEnvRaisesAtStart ==
    (ld.pc = "done" /\ (~ld.env.S3_PROCESSED_BUCKET \/ ~ld.env.DB_SECRET_NAME))
        => LdNothingTouched /\ ld.fault = "ValueError"

(* ------------------- the date dimension called on its own ---------------- *)

\* the days start and end are drawn from, and the calls made in a behaviour
MaxDay == 6
MaxCalls == 3

\* the rows of the object under a key, <<>> when there is none
RowsAt(objects, key) ==
    LET found == {o \in objects : o.key = key}
    IN IF found = {} THEN <<>> ELSE (CHOOSE o \in found : TRUE).rows

InitDate ==
    /\ now = 1
    /\ ssm = NoParameters
    /\ source = [t \in Tables |-> {}]
    /\ updates = 0
    /\ bucket = {}
    /\ runs = 0
    /\ run = [p \in Procs |-> IdleRun]
    /\ warehouse = <<>>
    /\ xf = IdleTransform
    /\ ld = IdleLoad
    /\ \E start \in 1..MaxDay, end \in 1..MaxDay :
          call = [op |-> "dim_date", start |-> start, end |-> end,
                  calls |-> 0, first |-> <<>>]
    /\ \E stale \in BOOLEAN :
          processed =
             IF stale
             THEN {[key |-> DimDateKey,
                    rows |-> <<[id |-> 0, value |-> "stale",
                                joined |-> "none"]>>]}
             ELSE {}

\* dim_date(processed_bucket, start, end), called once more with the same
\* bounds; first keeps the artifact the first call left
CallDimDate ==
    /\ call.op = "dim_date"
    /\ call.calls < MaxCalls
    /\ processed' = dim_date(processed, call.start, call.end).objects
    /\ call' = [call EXCEPT !.calls = @ + 1,
                            !.first = IF call.calls = 0
                                      THEN RowsAt(processed', DimDateKey)
                                      ELSE @]
    /\ UNCHANGED <<now, ssm, source, updates, bucket, runs, run, warehouse,
                   xf, ld>>

NextDate == CallDimDate

SpecDate == InitDate /\ [][NextDate]_vars

\* C21: for start <= end, after any number of calls of the generator with
\* the same bounds the artifact is the one the first call left, and it has
\* (end - start) + 1 rows, one per consecutive day, the first being start
\* and the last being end.
C21_DateDimensionIdempotent ==
    (call.op = "dim_date" /\ call.calls >= 1 /\ call.start <= call.end) =>
        LET rows == RowsAt(processed, DimDateKey)
        IN /\ rows = call.first
           /\ Cardinality({o \in processed : o.key = DimDateKey}) = 1
           /\ Len(rows) = (call.end - call.start) + 1
           /\ rows[1].id = call.start
           /\ rows[Len(rows)].id = call.end
           /\ \A i \in 1..(Len(rows) - 1) : rows[i + 1].id = rows[i].id + 1

\* C21 witness: the generator has run three times over a range of several
\* days, on a bucket that held an older date dimension.
C21_Witness ==
    /\ call.op = "dim_date"
    /\ call.calls = MaxCalls
    /\ call.end - call.start >= 2
    /\ Len(RowsAt(processed, DimDateKey)) = (call.end - call.start) + 1
    /\ RowsAt(processed, DimDateKey)[1].value # "stale"

\* the order the loader goes through the warehouse tables
ProcessingOrder ==
    <<"dim_currency", "dim_location", "dim_design", "dim_staff",
      "dim_counterparty", "fact_sales_order", "dim_date">>

PositionOf(table) ==
    CHOOSE i \in 1..Len(ProcessingOrder) : ProcessingOrder[i] = table

\* the rows the loader inserts for a table: its artifact, NaN as null
Converted(table) ==
    LET art == RowsAt(processed, ArtifactKey(table, ld.last_checked))
        none(v) == IF v = "NaN" THEN "NULL" ELSE v
    IN [i \in 1..Len(art) |-> [art[i] EXCEPT !.value = none(@)]]

\* the table the last statement was sent for
LastTable == ld.queries[Len(ld.queries)].table

\* an INSERT has failed: the database refused a statement for a table that
\* had been truncated and is not loaded
LdInsertFailed ==
    /\ ld.fault = "DatabaseError"
    /\ ld.queries # <<>>
    /\ LastTable \notin Range(ld.loaded)

\* C23: after an insert has failed part-way through a table, that table holds
\* only the rows inserted before the failure (the truncate is not undone),
\* the tables loaded earlier hold their new contents, the tables later in
\* the order are as they were, and the loader raises and returns no payload.
C23_InsertFailureLeavesPartialLoad ==
    LdInsertFailed =>
        LET failed == LastTable
            inserted == Len(StatementsOn(failed)) - 1
        IN /\ ld.pc \in {"finally", "done"}
           /\ inserted < Len(Converted(failed))
           /\ warehouse[failed] = SubSeq(Converted(failed), 1, inserted)
           /\ \A table \in Range(ld.loaded) :
                 /\ PositionOf(table) < PositionOf(failed)
                 /\ warehouse[table] = Converted(table)
           /\ \A i \in (PositionOf(failed) + 1)..Len(ProcessingOrder) :
                 /\ warehouse[ProcessingOrder[i]]
                       = ld.start_warehouse[ProcessingOrder[i]]
                 /\ StatementsOn(ProcessingOrder[i]) = <<>>
           /\ ld.outcome = "raised"
           /\ ld.message = "none"
           /\ ld.timestamp_loaded = None
           /\ ld.tables_loaded = <<>>

\* C23 witness: the second insert into dim_staff failed; dim_staff holds the
\* one row inserted, dim_currency was loaded, dim_date keeps its old row.
C23_Witness ==
    /\ ld.pc = "done"
    /\ LdInsertFailed
    /\ LastTable = "dim_staff"
    /\ Len(ld.start_warehouse["dim_staff"]) = 1
    /\ Len(warehouse["dim_staff"]) = 1
    /\ warehouse["dim_staff"][1].value # "old"
    /\ "dim_currency" \in Range(ld.loaded)
    /\ ArtifactPresent("dim_date")
    /\ Len(warehouse["dim_date"]) = 1
    /\ warehouse["dim_date"][1].value = "old"

\* C25: at every point of a loader run the statements sent so far go through
\* the tables in TABLE_CONFIG order with dim_date last, each table's TRUNCATE
\* before all of its INSERTs; a table is in the loaded list only once its
\* TRUNCATE and all of its INSERTs are done, and the list is in processing
\* order; tables_loaded of the result is that list.
C25_SequentialInOrder ==
    /\ \A i, j \in 1..Len(ld.queries) :
          i < j =>
             /\ PositionOf(ld.queries[i].table) <= PositionOf(ld.queries[j].table)
             /\ ld.queries[i].table = ld.queries[j].table
                   => ld.queries[j].op = "INSERT"
    /\ \A table \in WarehouseTables :
          StatementsOn(table) # <<>> => StatementsOn(table)[1].op = "TRUNCATE"
    /\ \A i \in 1..Len(ld.loaded) :
          /\ Len(StatementsOn(ld.loaded[i]))
                = 1 + Len(Converted(ld.loaded[i]))
          /\ \A j \in 1..Len(ld.loaded) :
                i < j => PositionOf(ld.loaded[i]) < PositionOf(ld.loaded[j])
          /\ \A k \in 1..Len(ld.queries) :
                PositionOf(ld.queries[k].table) > PositionOf(ld.loaded[i])
                   => \A q \in 1..Len(ld.queries) :
                         ld.queries[q].table = ld.loaded[i] => q < k
    /\ ld.outcome = "returned" => ld.tables_loaded = ld.loaded

\* C25 witness: a run has loaded three tables of two rows each.
C25_Witness ==
    /\ LdReturned
    /\ ld.tables_loaded = <<"dim_currency", "dim_staff", "dim_date">>
    /\ Len(ld.queries) = 3 * (1 + MaxArtifactRows)

(* -------------------- the staff builder called on its own ---------------- *)

\* rows of the staff artifact and of the department artifact in this model
MaxStaffRows == 2
MaxDepartments == 2

\* department_name and location of the department rows, by position
DepartmentNames == <<"dept_a", "dept_b", "dept_c", "dept_d">>

\* a staff artifact: row i carries staff_id i and a department_id
StaffRows(refs) ==
    [i \in DOMAIN refs |->
        [id |-> i, value |-> "staff", ref |-> refs[i], last_updated |-> 1]]

\* a department artifact: row j carries a department_id, its name and
\* location, and a manager
DepartmentRows(ids) ==
    [j \in DOMAIN ids |->
        [id |-> ids[j], value |-> DepartmentNames[j], manager |-> "manager",
         last_updated |-> 1]]

\* the raw bucket holds a staff artifact, or none, and a department
\* artifact, or none, of one timestamp; department ids may repeat
InitStaff ==
    /\ now = 1
    /\ ssm = NoParameters
    /\ source = [t \in Tables |-> {}]
    /\ updates = 0
    /\ runs = 0
    /\ run = [p \in Procs |-> IdleRun]
    /\ warehouse = <<>>
    /\ xf = IdleTransform
    /\ ld = IdleLoad
    /\ processed = {}
    /\ call = [op |-> "dim_staff", calls |-> 0]
    /\ \E n \in 0..MaxStaffRows, d \in 0..MaxDepartments,
          staff \in BOOLEAN, department \in BOOLEAN :
          \E refs \in [1..n -> 1..(MaxDepartments + 1)],
             ids \in [1..d -> 1..MaxDepartments] :
             bucket =
                (IF staff
                 THEN {[key |-> TransformKey("staff", ArtifactStamp),
                        rows |-> StaffRows(refs), modified |-> 1]}
                 ELSE {})
                \cup
                (IF department
                 THEN {[key |-> TransformKey("department", ArtifactStamp),
                        rows |-> DepartmentRows(ids), modified |-> 1]}
                 ELSE {})

\* dim_staff(last_checked, ingestion_bucket, processed_bucket)
CallDimStaff ==
    /\ call.op = "dim_staff"
    /\ call.calls = 0
    /\ processed' = dim_staff(ArtifactStamp, bucket, processed).objects
    /\ call' = [call EXCEPT !.calls = 1]
    /\ UNCHANGED <<now, ssm, source, updates, bucket, runs, run, warehouse,
                   xf, ld>>

NextStaff == CallDimStaff

SpecStaff == InitStaff /\ [][NextStaff]_vars

\* C27: given a staff artifact and a department artifact with unique
\* department ids, the staff dimension has one row per staff row, in order,
\* carrying the name and location of the department with the same id, or
\* nulls (NaN) when no department matches, and it has neither the
\* department_id nor the manager column.
C27_StaffRowsKept ==
    LET staff == RowsAt(bucket, TransformKey("staff", ArtifactStamp))
        dept == RowsAt(bucket, TransformKey("department", ArtifactStamp))
        out == RowsAt(processed, ProcessedKey("dim_staff", ArtifactStamp))
    IN (/\ call.op = "dim_staff" /\ call.calls = 1
        /\ check_file_exists(bucket, TransformKey("staff", ArtifactStamp))
        /\ check_file_exists(bucket, TransformKey("department", ArtifactStamp))
        /\ \A i, j \in 1..Len(dept) : dept[i].id = dept[j].id => i = j) =>
           /\ \E o \in processed :
                 o.key = ProcessedKey("dim_staff", ArtifactStamp)
           /\ Len(out) = Len(staff)
           /\ \A i \in 1..Len(staff) :
                 /\ out[i].id = staff[i].id
                 /\ out[i].value = staff[i].value
                 /\ \A j \in 1..Len(dept) :
                       dept[j].id = staff[i].ref => out[i].joined = dept[j].value
                 /\ (\A j \in 1..Len(dept) : dept[j].id # staff[i].ref)
                       => out[i].joined = "NaN"
                 /\ DOMAIN out[i] = {"id", "value", "joined"}

\* C27 witness: two staff rows, the first in the second of two departments,
\* the second in a department that does not exist.
C27_Witness ==
    LET staff == RowsAt(bucket, TransformKey("staff", ArtifactStamp))
        dept == RowsAt(bucket, TransformKey("department", ArtifactStamp))
        out == RowsAt(processed, ProcessedKey("dim_staff", ArtifactStamp))
    IN /\ call.op = "dim_staff" /\ call.calls = 1
       /\ Len(staff) = 2 /\ Len(dept) = 2
       /\ dept[1].id # dept[2].id
       /\ staff[1].ref = dept[2].id
       /\ staff[2].ref = MaxDepartments + 1
       /\ Len(out) = 2
       /\ out[1].joined = DepartmentNames[2]
       /\ out[2].joined = "NaN"

(* ----------------- the counterparty builder called on its own ------------ *)

\* the address artifact of the batch with stamp t, written at instant t
AddressObject(t) ==
    [key |-> TransformKey("address", IsoFormat(t)),
     rows |-> RawRows(ToString(t)), modified |-> t]

\* the raw bucket holds the counterparty artifact of the first batch, or
\* none, and the address artifacts of the first n batches, for several n up
\* to one more than a listing returns
InitCounterparty ==
    /\ now = 1
    /\ ssm = NoParameters
    /\ source = [t \in Tables |-> {}]
    /\ updates = 0
    /\ runs = 0
    /\ run = [p \in Procs |-> IdleRun]
    /\ warehouse = <<>>
    /\ xf = IdleTransform
    /\ ld = IdleLoad
    /\ processed = {}
    /\ \E counterparty \in BOOLEAN,
          n \in (0..MaxCalls) \cup {ListMaxKeys - 1, ListMaxKeys} :
          /\ bucket =
                (IF counterparty
                 THEN {[key |-> TransformKey("counterparty", IsoFormat(1)),
                        rows |-> RawRows("counterparty"), modified |-> 1]}
                 ELSE {})
                \cup {AddressObject(t) : t \in 1..n}
          /\ call = [op |-> "dim_counterparty", calls |-> 0, raised |-> FALSE,
                     first |-> <<>>, batches |-> n, listed |-> FALSE]

\* dim_counterparty(last_checked, ingestion_bucket, processed_bucket, s3_client)
\* for the first batch; first keeps the output of the first call
CallDimCounterparty ==
    /\ call.op = "dim_counterparty"
    /\ call.calls < MaxCalls
    /\ LET built == dim_counterparty(IsoFormat(1), bucket, processed)
       IN /\ processed' = built.objects
          /\ call' = [call EXCEPT
                !.calls = @ + 1, !.raised = built.raised, !.listed = TRUE,
                !.first = IF call.calls = 0
                          THEN RowsAt(built.objects,
                                      ProcessedKey("dim_counterparty",
                                                   IsoFormat(1)))
                          ELSE @]
    /\ UNCHANGED <<now, ssm, source, updates, bucket, runs, run, warehouse,
                   xf, ld>>

\* a later extractor batch writes its address artifact
PutAddress ==
    /\ call.op = "dim_counterparty"
    /\ call.batches < ListMaxKeys + 1
    /\ call.batches < MaxCalls \/ call.batches >= ListMaxKeys - 1
    /\ bucket' = bucket \cup {AddressObject(call.batches + 1)}
    /\ call' = [call EXCEPT !.batches = @ + 1, !.listed = FALSE]
    /\ UNCHANGED <<now, ssm, source, updates, runs, run, processed, warehouse,
                   xf, ld>>

NextCounterparty == CallDimCounterparty \/ PutAddress

SpecCounterparty == InitCounterparty /\ [][NextCounterparty]_vars

\* C26 (as claimed): when the counterparty artifact of the timestamp exists
\* and some object exists under the address prefix, the builder's output is
\* the counterparty rows joined to the address object with the greatest
\* last-modified time among all objects under the prefix, whichever batch
\* wrote it.
C26_JoinsLatestModifiedAddress ==
    LET cp_key == TransformKey("counterparty", IsoFormat(1))
        addresses == {o \in bucket : o.key.table = "address"}
        latest == CHOOSE o \in addresses :
                     \A q \in addresses : q.modified <= o.modified
    IN (/\ call.op = "dim_counterparty" /\ call.listed
        /\ check_file_exists(bucket, cp_key)
        /\ addresses # {}) =>
           /\ ~call.raised
           /\ RowsAt(processed, ProcessedKey("dim_counterparty", IsoFormat(1)))
                 = LeftMerge(RowsAt(bucket, cp_key), latest.rows)

\* the second half of C26: for the same counterparty artifact and timestamp a
\* newer address object written between two runs has changed the output
C26_NewerAddressChangesOutput ==
    /\ call.op = "dim_counterparty" /\ call.listed /\ call.calls = 2
    /\ call.first # <<>>
    /\ RowsAt(processed, ProcessedKey("dim_counterparty", IsoFormat(1)))
          # call.first

(* ------------------------ two runs, one after the other ------------------ *)

\* the scheduler's first invocation, and its next one after the first has
\* ended; each keeps its own record
StartFirst == runs = 0 /\ Start("run_a")

StartSecond == runs = 1 /\ Start("run_b")

\* the tables that receive rows in this specification: a change-tracked
\* table and the department table
RetryTables == {"transaction", "department"}

NextTwoRuns ==
    \/ Tick
    \/ \E t \in RetryTables : UpdateRow(t)
    \/ StartFirst
    \/ StartSecond
    \/ \E p \in Procs :
          \/ GetLastChecked(p)
          \/ GetDbCredentials(p)
          \/ CreateDbConnection(p)
          \/ GetBucketName(p)
          \/ BatchId(p)
          \/ ExtractNewRows(p)
          \/ Upload(p)
          \/ NewLastChecked(p)
          \/ UpdateLastChecked(p)
          \/ Finally(p)

SpecTwoRuns == Init /\ [][NextTwoRuns]_vars

\* the rows of a run's artifact for a table, {} when it wrote none
ArtifactOf(r, table) ==
    UNION {o.rows : o \in {q \in bucket : q.key = CsvKey(table, r.batch_id)}}

\* the run has gone through every table
WentThroughTables(r) ==
    r.batch_id # NoStamp /\ r.idx > Len(tables_to_import)

\* C24: after a run that failed having written artifacts, the next run reads
\* the same watermark, takes a new batch id and writes under keys of its
\* own; once it has gone through the tables its artifacts hold every row of
\* the failed run's artifacts that is still in the source, and every row
\* changed since the watermark that was there when the run began.
C24_RetryExtractsAgain ==
    LET failed == run["run_a"]
        next == run["run_b"]
    IN (Raised(failed) /\ failed.written # {}) =>
          /\ next.last_checked # NoStamp
                => next.last_checked = failed.last_checked
          /\ next.batch_id # NoStamp => next.batch_id # failed.batch_id
          /\ next.written \cap failed.written = {}
          /\ WentThroughTables(next) =>
                /\ \A o \in bucket : \A row \in o.rows :
                      (o.key \in failed.written /\ row \in source[o.key.table])
                         => row \in ArtifactOf(next, o.key.table)
                /\ \A table \in ChangeTracked : \A row \in source[table] :
                      (/\ row.last_updated > FromIsoFormat(next.last_checked)
                       /\ row.last_updated < next.batch_id.t)
                         => row \in ArtifactOf(next, table)

\* C24 witness: the first run failed after writing an artifact; the second
\* has succeeded and its artifact of the same table holds the failed run's
\* row and a row changed since.
C24_Witness ==
    LET failed == run["run_a"]
        next == run["run_b"]
    IN /\ Raised(failed) /\ failed.written # {}
       /\ Succeeded(next)
       /\ \E key \in failed.written :
             /\ \E o \in bucket : o.key = key /\ o.rows # {}
             /\ \E row \in ArtifactOf(next, key.table) :
                   row.last_updated >= failed.batch_id.t

\* C28: a successful run that began when the department table held a row
\* has written a department artifact holding it and lists "department" in
\* uploaded_tables, whatever watermark it read.
C28_DepartmentAlwaysExtracted ==
    \A p \in Procs :
        Succeeded(run[p]) =>
            \A row \in source["department"] :
                row.last_updated < run[p].batch_id.t =>
                    /\ "department" \in Range(run[p].payload.uploaded_tables)
                    /\ CsvKey("department", run[p].batch_id) \in run[p].written
                    /\ row \in ArtifactOf(run[p], "department")

\* C28 witness: the second of two successful runs read a watermark no
\* department row is newer than, and has written a department artifact.
C28_Witness ==
    LET first == run["run_a"]
        second == run["run_b"]
    IN /\ Succeeded(first) /\ Succeeded(second)
       /\ source["department"] # {}
       /\ \A row \in source["department"] :
             row.last_updated <= FromIsoFormat(second.last_checked)
       /\ "department" \in Range(second.payload.uploaded_tables)
       /\ "department" \in Range(first.payload.uploaded_tables)

(* --------------------------- two runs that overlap ----------------------- *)

\* the last instant of the clock in this specification
MaxOverlapTime == 4

TickOverlap ==
    /\ now < MaxOverlapTime
    /\ now' = now + 1
    /\ UNCHANGED <<ssm, source, updates, bucket, runs, run, call, stages>>

\* lambda_handler invoked with nothing that keeps a second invocation from
\* beginning while the first is still running: the handler takes no lock and
\* looks at no other invocation. run_a is the first invocation, run_b the second.
StartOverlapping(p) ==
    /\ run[p].pc = "idle"
    /\ p = "run_b" => run["run_a"].pc # "idle"
    /\ \E e \in Environments :
          run' = [run EXCEPT ![p] =
                     [IdleRun EXCEPT !.pc = "get_last_checked", !.env = e,
                                     !.start_ssm = ssm]]
    /\ runs' = runs + 1
    /\ UNCHANGED <<now, ssm, source, updates, bucket, call, stages>>

\* the table that receives rows in this specification
OverlapTables == {"transaction"}

\* the operational database writes a row it does not hold yet
UpdateNewRow(table) ==
    /\ [last_updated |-> now] \notin source[table]
    /\ UpdateRow(table)

\* the step of p met no failure: its environment is complete and every call
\* it made succeeded. The failing branches of the handler are the subject of
\* Spec and SpecTwoRuns; here the two invocations run to their end.
Unfailing(p) ==
    /\ run'[p].env.DB_SECRET_NAME /\ run'[p].env.S3_INGESTION_BUCKET
    /\ run'[p].fault = "none"
    /\ run'[p].db_conn # "close_failed"

NextOverlap ==
    \/ TickOverlap
    \/ \E t \in OverlapTables : UpdateNewRow(t)
    \/ \E p \in Procs :
          /\ \/ StartOverlapping(p)
             \/ GetLastChecked(p)
             \/ GetDbCredentials(p)
             \/ CreateDbConnection(p)
             \/ GetBucketName(p)
             \/ BatchId(p)
             \/ ExtractNewRows(p)
             \/ Upload(p)
             \/ NewLastChecked(p)
             \/ UpdateLastChecked(p)
             \/ Finally(p)
          /\ Unfailing(p)

SpecOverlap == Init /\ [][NextOverlap]_vars

\* the step is p's successful put of the watermark
WroteWatermark(p) == run'[p].writes = run[p].writes + 1

\* the step is p's successful read of the watermark
ReadWatermark(p) ==
    run'[p].reads = run[p].reads + 1 /\ run'[p].pc = "get_db_credentials"

\* C22: the watermark is read and written with no synchronisation between
\* overlapping runs: a run's read returns whatever is persisted at that
\* moment (the default when nothing is), also while another run is between
\* its read and its write, and a run's write replaces the persisted value by
\* its own new value whatever the value was (last writer wins).
C22_UnsynchronisedWatermark ==
    [][\A p \in Procs :
          /\ WroteWatermark(p) =>
                /\ "last_checked" \in DOMAIN ssm'
                /\ ssm'["last_checked"] = run[p].new_last_checked
          /\ ReadWatermark(p) =>
                run'[p].last_checked =
                   IF "last_checked" \in DOMAIN ssm THEN ssm["last_checked"]
                   ELSE DEFAULT_LAST_CHECKED]_vars

\* C22 witness: both runs have succeeded under different batch ids; a row is
\* in the artifacts of both, another row of the source is in no artifact
\* although the persisted watermark is later than its last_updated, and the
\* persisted watermark is the older of the two values written.
C22_Witness ==
    LET a == run["run_a"]
        b == run["run_b"]
    IN /\ Succeeded(a) /\ Succeeded(b)
       /\ a.batch_id # b.batch_id
       /\ \E table \in ChangeTracked :
             /\ \E row \in source[table] :
                   /\ row \in ArtifactOf(a, table)
                   /\ row \in ArtifactOf(b, table)
             /\ \E row \in source[table] :
                   /\ ~InSomeArtifact(table, row)
                   /\ row.last_updated < Watermark(ssm)
       /\ a.new_last_checked.t # b.new_last_checked.t
       /\ \A p \in Procs : Watermark(ssm) <= run[p].new_last_checked.t

(* --------------------------- the three stages --------------------------- *)

\* the raw bucket holds the raw artifacts of one timestamp, the warehouse
\* holds rows of an earlier load, nothing has run yet
InitPipeline ==
    /\ now = 1
    /\ ssm = NoParameters
    /\ source = [t \in Tables |-> {}]
    /\ updates = 0
    /\ runs = 0
    /\ run = [p \in Procs |-> IdleRun]
    /\ call = NoCall
    /\ xf = IdleTransform
    /\ ld = IdleLoad
    /\ bucket = {[key |-> TransformKey(t, ArtifactStamp), rows |-> RawRows(t),
                  modified |-> 1] : t \in RawTables}
    /\ processed = {}
    /\ warehouse = [t \in WarehouseTables |-> ExistingRows(MaxExistingRows)]

\* the transformer invoked once the extractor's invocation has ended
XfStartAfterExtract ==
    /\ runs = 1
    /\ ~Active(run["run_a"])
    /\ XfStart

NextPipeline ==
    \/ Tick
    \/ \E t \in OverlapTables : UpdateNewRow(t)
    \/ StartFirst
    \/ \E p \in Serial :
          \/ GetLastChecked(p)
          \/ GetDbCredentials(p)
          \/ CreateDbConnection(p)
          \/ GetBucketName(p)
          \/ BatchId(p)
          \/ ExtractNewRows(p)
          \/ Upload(p)
          \/ NewLastChecked(p)
          \/ UpdateLastChecked(p)
          \/ Finally(p)
    \/ XfStartAfterExtract
    \/ XfCheckEvent
    \/ XfCheckEnv
    \/ XfBuild
    \/ XfDimDate
    \/ XfReturn
    \/ LdStartAfterTransform
    \/ LdCheckEnv
    \/ LdTimestamp
    \/ LdGetDbCredentials
    \/ LdCreateDbConnection
    \/ LdExists
    \/ LdTruncate
    \/ LdInsertRow
    \/ LdLoaded
    \/ LdReturn
    \/ LdFinally

SpecPipeline == InitPipeline /\ [][NextPipeline]_vars

\* the step belongs to a stage: the stage's own record changes
ExtractorStep == run' # run
TransformerStep == xf' # xf
LoaderStep == ld' # ld

\* C29: a step that changes the persisted watermark or the raw bucket is a
\* step of the extractor, a step that changes the processed bucket is a step
\* of the transformer, a step that changes a warehouse table is a step of
\* the loader; a step of the transformer or the loader leaves the watermark
\* as it is, and a step of a stage leaves every artifact of the stage before
\* it in place (the extractor has none before it).
C29_StagesChangeOwnOutput ==
    [][/\ (ssm' # ssm \/ bucket' # bucket) => ExtractorStep
       /\ processed' # processed => TransformerStep
       /\ warehouse' # warehouse => LoaderStep
       /\ ExtractorStep => processed' = processed /\ warehouse' = warehouse
       /\ TransformerStep =>
             /\ ssm' = ssm
             /\ bucket' = bucket
             /\ warehouse' = warehouse
       /\ LoaderStep =>
             /\ ssm' = ssm
             /\ bucket' = bucket
             /\ processed' = processed]_vars

\* C29 witness: all three stages have written: the extractor the watermark
\* and a raw artifact, the transformer an artifact built from raw artifacts
\* that are still in the raw bucket, the loader rows of a warehouse table.
C29_Witness ==
    /\ Succeeded(run["run_a"]) /\ run["run_a"].written # {}
    /\ "last_checked" \in DOMAIN ssm
    /\ XfReturned /\ Cardinality(xf.written) > 1
    /\ \A t \in RawTables :
          check_file_exists(bucket, TransformKey(t, ArtifactStamp))
    /\ LdReturned /\ ld.loaded # <<>>
    /\ warehouse # ld.start_warehouse

====
